---- MODULE Spec2Model ----
(***************************************************************************)
(* A model of the worker-pool task scheduler of lesson-01/advanced/Task.go *)
(* (TaskScheduler, its workers, and the Execute methods of the two task    *)
(* variants).  In Spec time is abstracted: a timer that the code arms may  *)
(* fire at any later step, so every ordering of deadlines and task         *)
(* progress that a choice of durations can produce is a behaviour of the   *)
(* model.  ReuseSpec adds the calls of AddTask and Run that a caller can   *)
(* make after the first Run; TimedSpec runs the same scheduler against a   *)
(* clock of 100ms ticks, with timeouts and durations as numbers.           *)
(* PoolFairSpec schedules a scheduler of one or two workers fairly.        *)
(* LoggerSpec is the Logger of unnamed/part_001 with its writeLoop and its *)
(* callers; ScopesSpec is the users table and the paging query helpers of  *)
(* lesson-02/basics/Scopes_test.go; BankSpec is the Bank of                *)
(* unnamed/part_000.  Each specification holds the variables of the other  *)
(* programs at the value Unused.                                           *)
(***************************************************************************)
EXTENDS Integers, Sequences, FiniteSets, TLC

\* ------------------------------------------------------------------ bounds
MaxTasks == 2      \* the largest batch submitted before Run
MaxWorkers == 2    \* the largest workerCount passed to NewTaskScheduler
MaxSmallBatch == 1 \* the largest batch of the small-batch specification
MaxReruns == 1     \* how many times Run is called again on the same scheduler
MaxCallers == 2    \* the goroutines that call Log and Close on one Logger
MaxLogCalls == 2   \* the Log calls that find the Logger running
EntriesCap == 1    \* the capacity of l.entries (1000 in NewLogger)
MaxUsers == 3      \* the most rows in the users table
MaxAccounts == 2   \* the account numbers in use at the Bank

\* Count of a LongRunningTask is drawn from this set.  Its Execute polls the
\* token once before each step, so one step already has a poll before it and
\* a stretch after the last poll.
StepCounts == {1}

Workers == 1..MaxWorkers
TaskIdx == 1..MaxTasks

\* ------------------------------------------------------------ error values
\* An error value is <<kind, step>>.  The text of the message also carries
\* the task's ID, which is the key it is stored under.
Nil == <<"nil", 0>>                    \* Execute returned nil
ErrTimeout == <<"timeout", 0>>         \* SimpleTask: "任务 %s 超时: %v"
ErrDeadline == <<"deadline", 0>>       \* SimpleTask: taskCtx.Err() through done
\* Variant: the step about to run is reported, counting from one.
ErrCancelledOneBased(i) == <<"cancelled", i + 1>>

ErrCancelled(i) == <<"cancelled", i>>  \* LongRunningTask: "在第 %d 步被取消"
Pending == <<"pending", 0>>            \* history only: nothing yet

VARIABLES
  tasks,        \* s.tasks: sequence of [id, kind, count]
  workerCount,  \* s.workerCount
  results,      \* s.results: a function from the IDs present to error values
  mu,           \* s.mu: 0 when free, else the worker holding it
  wg,           \* s.wg: the WaitGroup counter
  runPc,        \* where Run is: "new", "range", "seed", "spawn", "returned"
  chanCap,      \* cap(taskChan)
  seedLen,      \* length of the slice the range loop of Run iterates
  seedI,        \* next index of that loop (1-based)
  taskChan,     \* the buffered channel: sequence of indices into tasks
  chanClosed,   \* close(taskChan) has run
  ctxErr,       \* ctx.Err() of the global context: "unset" before it exists
  spawnI,       \* i of the worker-starting loop of Run
  wpc,          \* per worker: "idle", "recv", "select", "exec", "lock", "crit", "exited"
  wtask,        \* per worker: index of the task it holds, 0 if none
  wstep,        \* per worker: i of LongRunningTask.Execute's loop
  werr,         \* per worker: err returned by task.Execute
  \* history variables (observations, never read by the program)
  deqCount,     \* per task: how many times it was received from taskChan
  execCount,    \* per task: how many times Execute was invoked on it
  returned,     \* per task: what Execute returned, Pending before
  recorded,     \* per task: what its worker stored in s.results, Pending before
  lastWriter,   \* per ID: the task whose outcome was stored last
  deqLate,      \* some task was received from taskChan after the global deadline fired
  reruns,       \* how many times Run was called again after it had returned
  \* time (read only by the timed specification; one tick is 100ms)
  now,          \* ticks since Run created the global context
  timeout,      \* s.timeout, in ticks
  taskTimeout,  \* per task: its Timeout field, in ticks
  texec,        \* per worker: where its task's Execute is: "none", "poll", "sleep"
  taskDeadline, \* per task: when the timer of its taskCtx is due, 0 before it is armed
  tFired,       \* per worker: the timer of its task's taskCtx has fired
  wake,         \* per worker: when the time.Sleep in progress in its task ends
  wdone,        \* per worker: what SimpleTask.Execute's done channel holds
  \* the Logger of unnamed/part_001
  running,       \* l.running
  entries,       \* l.entries: the buffered channel, a sequence of entry numbers
  entriesClosed, \* close(l.entries) has run
  loggerWg,      \* l.wg: the WaitGroup counter
  file,          \* l.file: "nil", "open" or "closed"
  loopPc,        \* writeLoop: "recv", "write", "exited"
  loopEntry,     \* the entry writeLoop holds, 0 if none
  callPc,        \* per caller goroutine: where its Log or Close call is
  callEntry,     \* per caller goroutine: the entry its Log call builds, 0 if none
  panicked,      \* a goroutine panicked: "no", "send" or "close"
  \* history of the Logger (never read by the program)
  logCalls,      \* how many Log calls were made
  accepted,      \* the entries sent on l.entries, in order
  written,       \* the entries writeLoop wrote, in order
  dropped,       \* the entries Log dropped on a full queue
  closeReturned, \* some Close call ran to its end
  \* the user table and query helpers of lesson-02/basics/Scopes_test.go
  users,         \* the rows of the users table, in order of insertion
  query,         \* the last helper called, with its arguments
  answer,        \* what that helper computed and returned
  \* the Bank of unnamed/part_000
  accounts,      \* b.accounts: account number -> [Balance, IsActive]
  bankCall,      \* the last method called on the Bank, with its arguments
  bankErr        \* the error that call returned

progVars == <<tasks, workerCount, results, mu, wg, runPc, chanCap, seedLen, seedI,
              taskChan, chanClosed, ctxErr, spawnI, wpc, wtask, wstep, werr>>
histVars == <<deqCount, execCount, returned, recorded, lastWriter, deqLate>>
timeVars == <<now, timeout, taskTimeout, texec, taskDeadline, tFired, wake, wdone>>
schedVars == <<progVars, histVars, reruns, timeVars>>
logVars == <<running, entries, entriesClosed, loggerWg, file, loopPc, loopEntry,
             callPc, callEntry, panicked, logCalls, accepted, written, dropped,
             closeReturned>>
scopeVars == <<users, query, answer>>
bankVars == <<accounts, bankCall, bankErr>>
\* what the scheduler never touches
otherVars == <<logVars, scopeVars, bankVars>>
vars == <<schedVars, otherVars>>

\* ---------------------------------------------------------------- helpers
\* m[k] = v, adding k when absent (a Go map assignment).
MapSet(m, k, v) == [x \in DOMAIN m \cup {k} |-> IF x = k THEN v ELSE m[x]]

\* The identifiers in use, in order of first use.  Identifiers are opaque
\* strings to the scheduler, so a batch is determined up to renaming by which
\* tasks share one: a new task reuses an identifier or takes the next unused one.
UsedIds(ts) == {ts[i].id : i \in 1..Len(ts)}
IdChoices(ts) == 1..(Cardinality(UsedIds(ts)) + 1)

NewSimpleTask(id) == [id |-> id, kind |-> "simple", count |-> 0]
NewLongRunningTask(id, count) == [id |-> id, kind |-> "long", count |-> count]

TaskChoices(ts) ==
  {NewSimpleTask(id) : id \in IdChoices(ts)}
    \cup {NewLongRunningTask(id, c) : id \in IdChoices(ts), c \in StepCounts}

GetID(t) == tasks[t].id

\* Variant: the global context is never seen done.
CtxDoneNever == FALSE

\* <-ctx.Done() is ready
CtxDone == ctxErr \in {"deadline", "canceled"}

\* ------------------------------------------------------------------- Init
NewTaskScheduler(n) ==
  /\ tasks = <<>>
  /\ results = <<>>
  /\ workerCount = n
  /\ mu = 0
  /\ wg = 0

\* Before Run is called: no channel, no context, no worker.  W is the set of
\* worker slots and T the set of task indices the observations range over.
RunNotCalled(W, T) ==
  /\ runPc = "new"
  /\ chanCap = 0 /\ seedLen = 0 /\ seedI = 0
  /\ taskChan = <<>> /\ chanClosed = FALSE
  /\ ctxErr = "unset"
  /\ spawnI = 0
  /\ wpc = [w \in W |-> "idle"]
  /\ wtask = [w \in W |-> 0]
  /\ wstep = [w \in W |-> 0]
  /\ werr = [w \in W |-> Pending]
  /\ deqCount = [t \in T |-> 0]
  /\ execCount = [t \in T |-> 0]
  /\ returned = [t \in T |-> Pending]
  /\ recorded = [t \in T |-> Pending]
  /\ lastWriter = <<>>
  /\ deqLate = FALSE
  /\ reruns = 0

\* The value of the time variables where durations are abstracted away: the
\* untimed specifications never read them.
Untimed == <<"untimed", 0>>

\* The value of the variables of a program that a specification leaves out.
Unused == <<"unused", 0>>

NoLogger ==
  /\ running = Unused /\ entries = Unused /\ entriesClosed = Unused
  /\ loggerWg = Unused /\ file = Unused /\ loopPc = Unused /\ loopEntry = Unused
  /\ callPc = Unused /\ callEntry = Unused /\ panicked = Unused
  /\ logCalls = Unused /\ accepted = Unused /\ written = Unused
  /\ dropped = Unused /\ closeReturned = Unused

NoTable == users = Unused /\ query = Unused /\ answer = Unused

NoBank == accounts = Unused /\ bankCall = Unused /\ bankErr = Unused

NoScheduler ==
  /\ tasks = Unused /\ workerCount = Unused /\ results = Unused /\ mu = Unused
  /\ wg = Unused /\ runPc = Unused /\ chanCap = Unused /\ seedLen = Unused
  /\ seedI = Unused /\ taskChan = Unused /\ chanClosed = Unused
  /\ ctxErr = Unused /\ spawnI = Unused /\ wpc = Unused /\ wtask = Unused
  /\ wstep = Unused /\ werr = Unused
  /\ deqCount = Unused /\ execCount = Unused /\ returned = Unused
  /\ recorded = Unused /\ lastWriter = Unused /\ deqLate = Unused
  /\ reruns = Unused
  /\ now = Unused /\ timeout = Unused /\ taskTimeout = Unused
  /\ texec = Unused /\ taskDeadline = Unused /\ tFired = Unused
  /\ wake = Unused /\ wdone = Unused

Init ==
  /\ \E n \in 0..MaxWorkers : NewTaskScheduler(n)
  /\ RunNotCalled(Workers, TaskIdx)
  /\ now = Untimed /\ timeout = Untimed /\ taskTimeout = Untimed
  /\ texec = Untimed /\ taskDeadline = Untimed /\ tFired = Untimed
  /\ wake = Untimed /\ wdone = Untimed
  /\ NoLogger /\ NoTable /\ NoBank

\* ------------------------------------------------- operations of the code
\* The empty state of SimpleTask.Execute's done channel.
Empty == <<"empty", 0>>

\* Variant: a Lock that never waits.
CanLockAlways(m) == TRUE

\* s.mu.Lock() returns only when no one holds the mutex.
CanLock(m) == m = 0

\* Variant: a receive that takes the element sent last.
ChanRecvNewest(ch) == ch[Len(ch)]

\* What a receive from a buffered channel yields: the element sent first.
ChanRecv(ch) == Head(ch)

\* Variant: a receive that leaves the element in the queue.
ChanAfterRecvKeep(ch) == ch

\* A receive from taskChan removes the element received.
ChanAfterRecv(ch) == Tail(ch)

\* Variant: no join at all.
WaitReturnsNoJoin(n) == TRUE

\* Variant: a join that is off by one worker.
WaitReturnsOffByOne(n) == n <= 1

\* s.wg.Wait() returns only when the counter is zero.
WaitReturns(n) == n = 0

\* Variant: only successes are stored.
StoreResultNilOnly(res, id, err) == IF err = Nil THEN MapSet(res, id, err) ELSE res

\* Variant: an entry already present is kept.
StoreResultKeepFirst(res, id, err) == IF id \in DOMAIN res THEN res ELSE MapSet(res, id, err)

\* s.results[task.GetID()] = err
StoreResult(res, id, err) == MapSet(res, id, err)

\* Variant: the stopping worker records a cancellation for the task it holds.
StopResultsCancelled(res, id) == MapSet(res, id, ErrCancelled(0))

\* Variant: the stopping worker records the task it holds as done.
StopResultsNil(res, id) == MapSet(res, id, Nil)

\* The worker's ctx.Done() branch returns without touching s.results.
StopResults(res, id) == res

\* Variant: a failed task ends its worker.
NextAfterRecordAbort(err) == IF err = Nil THEN "recv" ELSE "exited"

\* After recording an outcome the range loop goes on to the next receive,
\* whatever err is (it is only printed).
NextAfterRecord(err) == "recv"

\* Variant: the channel is left open.
CloseChanForgotten == FALSE

\* close(taskChan)
CloseChan == TRUE

\* Variant: the loop that starts the workers runs once too often.
MoreWorkersInclusive(i, n) == i <= n

\* Run: the condition of `for i := 0; i < s.workerCount; i++`
MoreWorkers(i, n) == i < n

AddTask(task) ==
  /\ CanLock(mu)
  /\ tasks' = Append(tasks, task)
  /\ UNCHANGED <<workerCount, results, mu, wg, runPc, chanCap, seedLen, seedI,
                 taskChan, chanClosed, ctxErr, spawnI, wpc, wtask, wstep, werr>>
  /\ UNCHANGED histVars

\* The caller submits the batch, of at most n tasks, before it calls Run (as
\* main does).
SubmitUpTo(n) ==
  /\ runPc = "new"
  /\ Len(tasks) < n
  /\ \E task \in TaskChoices(tasks) : AddTask(task)
  /\ UNCHANGED <<otherVars, reruns, timeVars>>

Submit == SubmitUpTo(MaxTasks)

SubmitSmall == SubmitUpTo(MaxSmallBatch)

\* Run: taskChan := make(chan Task, len(s.tasks))
RunMake ==
  /\ runPc = "new"
  /\ chanCap' = Len(tasks)
  /\ taskChan' = <<>>
  /\ runPc' = "range"
  /\ UNCHANGED <<tasks, workerCount, results, mu, wg, seedLen, seedI, chanClosed,
                 ctxErr, spawnI, wpc, wtask, wstep, werr>>
  /\ UNCHANGED histVars
  /\ UNCHANGED <<otherVars, reruns, timeVars>>

\* Run: `range s.tasks` evaluates the slice once
RunRange ==
  /\ runPc = "range"
  /\ seedLen' = Len(tasks)
  /\ seedI' = 1
  /\ runPc' = "seed"
  /\ UNCHANGED <<tasks, workerCount, results, mu, wg, chanCap, taskChan, chanClosed,
                 ctxErr, spawnI, wpc, wtask, wstep, werr>>
  /\ UNCHANGED histVars
  /\ UNCHANGED <<otherVars, reruns, timeVars>>

\* Run: taskChan <- task (blocks while the buffer is full)
RunSeed ==
  /\ runPc = "seed"
  /\ seedI <= seedLen
  /\ Len(taskChan) < chanCap
  /\ taskChan' = Append(taskChan, seedI)
  /\ seedI' = seedI + 1
  /\ UNCHANGED <<tasks, workerCount, results, mu, wg, runPc, chanCap, seedLen,
                 chanClosed, ctxErr, spawnI, wpc, wtask, wstep, werr>>
  /\ UNCHANGED histVars
  /\ UNCHANGED <<otherVars, reruns, timeVars>>

\* Run: close(taskChan); ctx, cancel := context.WithTimeout(Background, s.timeout)
RunClose ==
  /\ runPc = "seed"
  /\ seedI > seedLen
  /\ chanClosed' = CloseChan
  /\ ctxErr' = "none"
  /\ spawnI' = 0
  /\ runPc' = "spawn"
  /\ UNCHANGED <<tasks, workerCount, results, mu, wg, chanCap, seedLen, seedI,
                 taskChan, wpc, wtask, wstep, werr>>
  /\ UNCHANGED histVars
  /\ UNCHANGED <<otherVars, reruns, timeVars>>

\* Run: s.wg.Add(1); go s.worker(ctx, i, taskChan)
RunSpawn ==
  /\ runPc = "spawn"
  /\ MoreWorkers(spawnI, workerCount)
  /\ wg' = wg + 1
  /\ wpc' = [wpc EXCEPT ![spawnI + 1] = "recv"]
  /\ spawnI' = spawnI + 1
  /\ UNCHANGED <<tasks, workerCount, results, mu, runPc, chanCap, seedLen, seedI,
                 taskChan, chanClosed, ctxErr, wtask, wstep, werr>>
  /\ UNCHANGED histVars
  /\ UNCHANGED <<otherVars, reruns, timeVars>>

\* Run: s.wg.Wait(); return s.results (the deferred cancel runs on return)
RunWait ==
  /\ runPc = "spawn"
  /\ ~MoreWorkers(spawnI, workerCount)
  /\ WaitReturns(wg)
  /\ runPc' = "returned"
  /\ ctxErr' = IF ctxErr = "none" THEN "canceled" ELSE ctxErr
  /\ UNCHANGED <<tasks, workerCount, results, mu, wg, chanCap, seedLen, seedI,
                 taskChan, chanClosed, spawnI, wpc, wtask, wstep, werr>>
  /\ UNCHANGED histVars
  /\ UNCHANGED <<otherVars, reruns, timeVars>>

\* The timer of the global context fires (s.timeout has elapsed).
GlobalTimeout ==
  /\ ctxErr = "none"
  /\ ctxErr' = "deadline"
  /\ UNCHANGED <<tasks, workerCount, results, mu, wg, runPc, chanCap, seedLen, seedI,
                 taskChan, chanClosed, spawnI, wpc, wtask, wstep, werr>>
  /\ UNCHANGED histVars
  /\ UNCHANGED <<otherVars, reruns, timeVars>>

\* worker: defer s.wg.Done(), at either way out of the loop
WorkerExit(w) ==
  /\ wpc' = [wpc EXCEPT ![w] = "exited"]
  /\ wtask' = [wtask EXCEPT ![w] = 0]
  /\ wg' = wg - 1

\* worker: for task := range taskChan, a task is received
WorkerRecv(w) ==
  /\ wpc[w] = "recv"
  /\ taskChan # <<>>
  /\ wtask' = [wtask EXCEPT ![w] = ChanRecv(taskChan)]
  /\ taskChan' = ChanAfterRecv(taskChan)
  /\ wpc' = [wpc EXCEPT ![w] = "select"]
  /\ deqCount' = [deqCount EXCEPT ![ChanRecv(taskChan)] = @ + 1]
  /\ deqLate' = (deqLate \/ ctxErr = "deadline")
  /\ UNCHANGED <<tasks, workerCount, results, mu, wg, runPc, chanCap, seedLen, seedI,
                 chanClosed, ctxErr, spawnI, wstep, werr>>
  /\ UNCHANGED <<execCount, returned, recorded, lastWriter>>
  /\ UNCHANGED <<otherVars, reruns, timeVars>>

\* worker: for task := range taskChan, the channel is closed and drained
WorkerDrained(w) ==
  /\ wpc[w] = "recv"
  /\ taskChan = <<>>
  /\ chanClosed
  /\ WorkerExit(w)
  /\ UNCHANGED <<tasks, workerCount, results, mu, runPc, chanCap, seedLen, seedI,
                 taskChan, chanClosed, ctxErr, spawnI, wstep, werr>>
  /\ UNCHANGED histVars
  /\ UNCHANGED <<otherVars, reruns, timeVars>>

\* worker: select, case <-ctx.Done(): return
WorkerStop(w) ==
  /\ wpc[w] = "select"
  /\ CtxDone
  /\ results' = StopResults(results, GetID(wtask[w]))
  /\ WorkerExit(w)
  /\ UNCHANGED <<tasks, workerCount, mu, runPc, chanCap, seedLen, seedI,
                 taskChan, chanClosed, ctxErr, spawnI, wstep, werr>>
  /\ UNCHANGED histVars
  /\ UNCHANGED <<otherVars, reruns, timeVars>>

\* worker: select, default: err := task.Execute(ctx) is entered
WorkerStart(w) ==
  /\ wpc[w] = "select"
  /\ ~CtxDone
  /\ wpc' = [wpc EXCEPT ![w] = "exec"]
  /\ wstep' = [wstep EXCEPT ![w] = 0]
  /\ execCount' = [execCount EXCEPT ![wtask[w]] = @ + 1]
  /\ UNCHANGED <<tasks, workerCount, results, mu, wg, runPc, chanCap, seedLen, seedI,
                 taskChan, chanClosed, ctxErr, spawnI, wtask, werr>>
  /\ UNCHANGED <<deqCount, returned, recorded, lastWriter, deqLate>>
  /\ UNCHANGED <<otherVars, reruns, timeVars>>

\* Variant: taskCtx is derived from context.Background(), not from ctx.
TaskCtxDoneOwnOnly(timedOut) == timedOut

\* <-taskCtx.Done() is ready: the parent context is done, or the task's own
\* timer (t.Timeout) has fired, which it may have at any moment.
TaskCtxDone(timedOut) == CtxDone \/ timedOut

\* task.Execute returns err to the worker
ExecuteReturn(w, err) ==
  /\ wpc' = [wpc EXCEPT ![w] = "lock"]
  /\ werr' = [werr EXCEPT ![w] = err]
  /\ wstep' = [wstep EXCEPT ![w] = 0]
  /\ returned' = [returned EXCEPT ![wtask[w]] = err]
  /\ UNCHANGED <<tasks, workerCount, results, mu, wg, runPc, chanCap, seedLen, seedI,
                 taskChan, chanClosed, ctxErr, spawnI, wtask>>
  /\ UNCHANGED <<deqCount, execCount, recorded, lastWriter, deqLate>>

\* SimpleTask.Execute, the inner goroutine: what it has sent on done by now.
\* It sleeps, then sends taskCtx.Err() if it finds taskCtx done (which then
\* stays done) and nil if not; it touches nothing else.
SimpleSent(timedOut) ==
  {Empty, Nil} \cup (IF TaskCtxDone(timedOut) THEN {ErrDeadline} ELSE {})

\* Variant: Execute only waits for the inner goroutine.
SimpleSelectDoneOnly(sent, timedOut) == IF sent # Empty THEN {sent} ELSE {}

\* SimpleTask.Execute, the outer select: the values its ready cases return
SimpleSelect(sent, timedOut) ==
  (IF TaskCtxDone(timedOut) THEN {ErrTimeout} ELSE {})
    \cup (IF sent # Empty THEN {sent} ELSE {})

SimpleReturn(w) ==
  /\ wpc[w] = "exec"
  /\ tasks[wtask[w]].kind = "simple"
  /\ \E timedOut \in BOOLEAN :
       \E sent \in SimpleSent(timedOut) :
         \E err \in SimpleSelect(sent, timedOut) : ExecuteReturn(w, err)
  /\ UNCHANGED <<otherVars, reruns, timeVars>>

\* Variant: the token is polled once more when the loop is over.
AfterLoopPolled(fired, i) == IF fired THEN ErrCancelled(i) ELSE Nil

\* LongRunningTask.Execute after its loop: return nil, whether or not taskCtx
\* is done by then.
AfterLoop(fired, i) == Nil

\* LongRunningTask.Execute, one iteration: the select before the step
LongCancelled(w) ==
  /\ wpc[w] = "exec"
  /\ tasks[wtask[w]].kind = "long"
  /\ wstep[w] < tasks[wtask[w]].count
  /\ TaskCtxDone(TRUE)
  /\ ExecuteReturn(w, ErrCancelled(wstep[w]))
  /\ UNCHANGED <<otherVars, reruns, timeVars>>

LongStep(w) ==
  /\ wpc[w] = "exec"
  /\ tasks[wtask[w]].kind = "long"
  /\ wstep[w] < tasks[wtask[w]].count
  /\ ~TaskCtxDone(FALSE)
  /\ wstep' = [wstep EXCEPT ![w] = @ + 1]
  /\ UNCHANGED <<tasks, workerCount, results, mu, wg, runPc, chanCap, seedLen, seedI,
                 taskChan, chanClosed, ctxErr, spawnI, wpc, wtask, werr>>
  /\ UNCHANGED histVars
  /\ UNCHANGED <<otherVars, reruns, timeVars>>

\* LongRunningTask.Execute: the loop is over, return nil
LongFinish(w) ==
  /\ wpc[w] = "exec"
  /\ tasks[wtask[w]].kind = "long"
  /\ wstep[w] >= tasks[wtask[w]].count
  /\ \E timedOut \in BOOLEAN :
       ExecuteReturn(w, AfterLoop(TaskCtxDone(timedOut), wstep[w]))
  /\ UNCHANGED <<otherVars, reruns, timeVars>>

\* worker: s.mu.Lock()
WorkerLock(w) ==
  /\ wpc[w] = "lock"
  /\ CanLock(mu)
  /\ mu' = w
  /\ wpc' = [wpc EXCEPT ![w] = "crit"]
  /\ UNCHANGED <<tasks, workerCount, results, wg, runPc, chanCap, seedLen, seedI,
                 taskChan, chanClosed, ctxErr, spawnI, wtask, wstep, werr>>
  /\ UNCHANGED histVars
  /\ UNCHANGED <<otherVars, reruns, timeVars>>

\* worker: s.results[task.GetID()] = err; s.mu.Unlock()
WorkerStore(w) ==
  /\ wpc[w] = "crit"
  /\ results' = StoreResult(results, GetID(wtask[w]), werr[w])
  /\ mu' = 0
  /\ wpc' = [wpc EXCEPT ![w] = NextAfterRecord(werr[w])]
  /\ wtask' = [wtask EXCEPT ![w] = 0]
  /\ werr' = [werr EXCEPT ![w] = Pending]
  /\ recorded' = [recorded EXCEPT ![wtask[w]] = werr[w]]
  /\ lastWriter' = MapSet(lastWriter, GetID(wtask[w]), wtask[w])
  /\ UNCHANGED <<tasks, workerCount, wg, runPc, chanCap, seedLen, seedI,
                 taskChan, chanClosed, ctxErr, spawnI, wstep>>
  /\ UNCHANGED <<deqCount, execCount, returned, deqLate>>
  /\ UNCHANGED <<otherVars, reruns, timeVars>>

Execute(w) ==
  \/ SimpleReturn(w)
  \/ LongCancelled(w)
  \/ LongStep(w)
  \/ LongFinish(w)

worker(w) ==
  \/ WorkerRecv(w)
  \/ WorkerDrained(w)
  \/ WorkerStop(w)
  \/ WorkerStart(w)
  \/ Execute(w)
  \/ WorkerLock(w)
  \/ WorkerStore(w)

Run ==
  \/ RunMake
  \/ RunRange
  \/ RunSeed
  \/ RunClose
  \/ RunSpawn
  \/ RunWait

Next ==
  \/ Submit
  \/ Run
  \/ GlobalTimeout
  \/ \E w \in Workers : worker(w)

Spec == Init /\ [][Next]_vars

\* Every goroutine that can take a step eventually takes one: the Go
\* scheduler starves no runnable goroutine.  Nothing is assumed of the timer
\* or of the caller before Run.
Fairness ==
  /\ WF_vars(Run)
  /\ \A w \in Workers : WF_vars(worker(w))

FairSpec == Spec /\ Fairness

\* The same scheduler with batches of at most MaxSmallBatch tasks.
NextSmall ==
  \/ SubmitSmall
  \/ Run
  \/ GlobalTimeout
  \/ \E w \in Workers : worker(w)

SmallFairSpec == Init /\ [][NextSmall]_vars /\ Fairness

\* ------------------------------------------- a scheduler used past its Run
\* The caller calls AddTask after it has called Run.  AddTask takes s.mu, which
\* Run never takes: nothing in the code tells a late call from an early one.
\* (Run reads s.tasks without the mutex, so a call that overlaps one of Run's
\* two reads is a data race; the reads see the slice before or after the
\* append, which are the two orders of the steps here.)
LateAddTask ==
  /\ runPc # "new"
  /\ Len(tasks) < MaxTasks
  /\ \E task \in TaskChoices(tasks) : AddTask(task)
  /\ UNCHANGED <<otherVars, reruns, timeVars>>

\* The caller calls Run again after it has returned: a new channel sized by
\* the task list as it is now, to be seeded with all of it; s.results, s.wg
\* and s.mu are the same objects as before, the context and the workers are
\* new ones.
RunAgain ==
  /\ runPc = "returned"
  /\ reruns < MaxReruns
  /\ reruns' = reruns + 1
  /\ chanCap' = Len(tasks)
  /\ taskChan' = <<>>
  /\ chanClosed' = FALSE
  /\ ctxErr' = "unset"
  /\ spawnI' = 0
  /\ wpc' = [w \in DOMAIN wpc |-> "idle"]
  /\ runPc' = "range"
  /\ UNCHANGED <<tasks, workerCount, results, mu, wg, seedLen, seedI, wtask, wstep, werr>>
  /\ UNCHANGED histVars
  /\ UNCHANGED timeVars
  /\ UNCHANGED otherVars

ReuseNext ==
  \/ Submit
  \/ LateAddTask
  \/ Run
  \/ RunAgain
  \/ GlobalTimeout
  \/ \E w \in Workers : worker(w)

ReuseSpec == Init /\ [][ReuseNext]_vars

\* ------------------------------------------------------------ timed model
\* Durations in ticks of 100ms, the length of one step of LongRunningTask.
\* Time passes only in time.Sleep and while a goroutine is blocked: every
\* other step takes no time, and steps due at the same instant (a timer and
\* a poll of its token, two workers) happen in either order.

\* SimpleTask's simulated duration, rand.Intn(100)+300 milliseconds: at least
\* 3 ticks and less than 4.
SimpleDurations == {3, 4}

\* The budgets the timed specification draws from: a global budget shorter
\* and one longer than what a small batch needs, a task timeout shorter and
\* one longer than every task duration, and a count of two steps, which has a
\* poll of the token at step 0 and one at step 1.
GlobalBudgets == {2, 10}
TaskTimeouts == {1, 5}
TimedCounts == {2}

\* The run of main without its second "long-task-1": four tasks with distinct
\* identifiers, three workers, a budget of 4s.
ScenarioWorkers == 3
ScenarioBudget == 40
ScenarioTasks ==
  <<NewSimpleTask(1), NewLongRunningTask(2, 50), NewLongRunningTask(3, 20), NewSimpleTask(4)>>
ScenarioTimeouts == <<20, 50, 10, 5>>

\* The worker slots of the drawn schedulers and of the scenario.
WorkerSlots == Workers \cup (1..ScenarioWorkers)

\* No context exists yet and no Execute is in progress.
TimeNotStarted(W, T) ==
  /\ now = 0
  /\ texec = [w \in W |-> "none"]
  /\ taskDeadline = [t \in T |-> 0]
  /\ tFired = [w \in W |-> FALSE]
  /\ wake = [w \in W |-> 0]
  /\ wdone = [w \in W |-> Empty]

DrawnInit ==
  /\ \E n \in 0..MaxWorkers : NewTaskScheduler(n)
  /\ timeout \in GlobalBudgets
  /\ taskTimeout = <<>>
  /\ RunNotCalled(WorkerSlots, TaskIdx)
  /\ TimeNotStarted(WorkerSlots, TaskIdx)
  /\ NoLogger /\ NoTable /\ NoBank

\* The scheduler after its construction and the AddTask calls of the scenario.
ScenarioInit ==
  /\ tasks = ScenarioTasks
  /\ results = <<>>
  /\ workerCount = ScenarioWorkers
  /\ mu = 0
  /\ wg = 0
  /\ timeout = ScenarioBudget
  /\ taskTimeout = ScenarioTimeouts
  /\ RunNotCalled(WorkerSlots, 1..Len(ScenarioTasks))
  /\ TimeNotStarted(WorkerSlots, 1..Len(ScenarioTasks))
  /\ NoLogger /\ NoTable /\ NoBank

TimedInit == DrawnInit \/ ScenarioInit

TimedTaskChoices(ts) ==
  LET id == Cardinality(UsedIds(ts)) + 1 IN
    {NewSimpleTask(id)} \cup {NewLongRunningTask(id, c) : c \in TimedCounts}

\* The caller submits a task with a timeout before it calls Run.
TimedSubmit ==
  /\ runPc = "new"
  /\ Len(tasks) < MaxTasks
  /\ \E task \in TimedTaskChoices(tasks) : AddTask(task)
  /\ \E to \in TaskTimeouts : taskTimeout' = Append(taskTimeout, to)
  /\ UNCHANGED <<otherVars, reruns, now, timeout, texec, taskDeadline, tFired, wake, wdone>>

\* The timer of the global context is due s.timeout after its creation.
TimedGlobalTimeout ==
  /\ now >= timeout
  /\ GlobalTimeout

\* <-taskCtx.Done() is ready for the task of worker w.
TokenFired(w) == TaskCtxDone(tFired[w])

\* Execute returns: its deferred cancel stops the timer of taskCtx.
TimedExit(w) ==
  /\ texec' = [texec EXCEPT ![w] = "none"]
  /\ tFired' = [tFired EXCEPT ![w] = FALSE]
  /\ wake' = [wake EXCEPT ![w] = 0]
  /\ wdone' = [wdone EXCEPT ![w] = Empty]
  /\ UNCHANGED <<otherVars, reruns, now, timeout, taskTimeout, taskDeadline>>

\* Execute is entered: taskCtx, cancel := context.WithTimeout(ctx, t.Timeout);
\* SimpleTask also starts its inner goroutine, which draws its duration and
\* goes to sleep.
TimedBegin(w) ==
  /\ wpc[w] = "exec"
  /\ texec[w] = "none"
  /\ texec' = [texec EXCEPT ![w] = "poll"]
  /\ taskDeadline' = [taskDeadline EXCEPT ![wtask[w]] = now + taskTimeout[wtask[w]]]
  /\ IF tasks[wtask[w]].kind = "simple"
       THEN \E d \in SimpleDurations : wake' = [wake EXCEPT ![w] = now + d]
       ELSE wake' = wake
  /\ UNCHANGED <<otherVars, progVars, histVars, reruns, now, timeout, taskTimeout, tFired, wdone>>

\* The timer of taskCtx fires (a context cancelled by its parent has stopped
\* its timer).
TaskTimerFire(w) ==
  /\ wpc[w] = "exec"
  /\ texec[w] # "none"
  /\ ~tFired[w]
  /\ ~CtxDone
  /\ now >= taskDeadline[wtask[w]]
  /\ tFired' = [tFired EXCEPT ![w] = TRUE]
  /\ UNCHANGED <<otherVars, progVars, histVars, reruns, now, timeout, taskTimeout, texec,
                 taskDeadline, wake, wdone>>

\* SimpleTask.Execute, the inner goroutine: its sleep is over; it sends
\* taskCtx.Err() if taskCtx is done and nil if not.
TimedSimpleInner(w) ==
  /\ wpc[w] = "exec"
  /\ tasks[wtask[w]].kind = "simple"
  /\ texec[w] = "poll"
  /\ wdone[w] = Empty
  /\ now >= wake[w]
  /\ wdone' = [wdone EXCEPT ![w] = IF TokenFired(w) THEN ErrDeadline ELSE Nil]
  /\ UNCHANGED <<otherVars, progVars, histVars, reruns, now, timeout, taskTimeout, texec,
                 taskDeadline, tFired, wake>>

\* SimpleTask.Execute, the outer select: one of its ready cases returns.
TimedSimpleReturn(w) ==
  /\ wpc[w] = "exec"
  /\ tasks[wtask[w]].kind = "simple"
  /\ texec[w] = "poll"
  /\ \E err \in SimpleSelect(wdone[w], tFired[w]) : ExecuteReturn(w, err)
  /\ TimedExit(w)

\* LongRunningTask.Execute: the select before step i finds taskCtx done.
TimedLongCancelled(w) ==
  /\ wpc[w] = "exec"
  /\ tasks[wtask[w]].kind = "long"
  /\ texec[w] = "poll"
  /\ wstep[w] < tasks[wtask[w]].count
  /\ TokenFired(w)
  /\ ExecuteReturn(w, ErrCancelled(wstep[w]))
  /\ TimedExit(w)

\* LongRunningTask.Execute: the select takes its default case and the step
\* begins, time.Sleep(100 * time.Millisecond).
TimedLongSleep(w) ==
  /\ wpc[w] = "exec"
  /\ tasks[wtask[w]].kind = "long"
  /\ texec[w] = "poll"
  /\ wstep[w] < tasks[wtask[w]].count
  /\ ~TokenFired(w)
  /\ texec' = [texec EXCEPT ![w] = "sleep"]
  /\ wake' = [wake EXCEPT ![w] = now + 1]
  /\ UNCHANGED <<otherVars, progVars, histVars, reruns, now, timeout, taskTimeout,
                 taskDeadline, tFired, wdone>>

\* LongRunningTask.Execute: the sleep is over, the step is done, i++.
TimedLongWake(w) ==
  /\ wpc[w] = "exec"
  /\ texec[w] = "sleep"
  /\ now >= wake[w]
  /\ wstep' = [wstep EXCEPT ![w] = @ + 1]
  /\ texec' = [texec EXCEPT ![w] = "poll"]
  /\ wake' = [wake EXCEPT ![w] = 0]
  /\ UNCHANGED <<tasks, workerCount, results, mu, wg, runPc, chanCap, seedLen, seedI,
                 taskChan, chanClosed, ctxErr, spawnI, wpc, wtask, werr>>
  /\ UNCHANGED <<otherVars, histVars, reruns, now, timeout, taskTimeout, taskDeadline, tFired, wdone>>

\* LongRunningTask.Execute: the loop is over, return nil.
TimedLongFinish(w) ==
  /\ wpc[w] = "exec"
  /\ tasks[wtask[w]].kind = "long"
  /\ texec[w] = "poll"
  /\ wstep[w] >= tasks[wtask[w]].count
  /\ ExecuteReturn(w, AfterLoop(TokenFired(w), wstep[w]))
  /\ TimedExit(w)

TimedExecute(w) ==
  \/ TimedBegin(w)
  \/ TaskTimerFire(w)
  \/ TimedSimpleInner(w)
  \/ TimedSimpleReturn(w)
  \/ TimedLongCancelled(w)
  \/ TimedLongSleep(w)
  \/ TimedLongWake(w)
  \/ TimedLongFinish(w)

TimedWorker(w) ==
  \/ WorkerRecv(w)
  \/ WorkerDrained(w)
  \/ WorkerStop(w)
  \/ WorkerStart(w)
  \/ TimedExecute(w)
  \/ WorkerLock(w)
  \/ WorkerStore(w)

\* The steps that take no time: whatever can run, runs before time passes.
Immediate ==
  \/ Run
  \/ TimedGlobalTimeout
  \/ \E w \in WorkerSlots : TimedWorker(w)

\* 100ms pass while the global context exists and Run has not returned, when
\* every goroutine is asleep or blocked and no timer is due.
Tick ==
  /\ runPc = "spawn"
  /\ ~ENABLED Immediate
  /\ now' = now + 1
  /\ UNCHANGED <<otherVars, progVars, histVars, reruns, timeout, taskTimeout, texec,
                 taskDeadline, tFired, wake, wdone>>

TimedNext ==
  \/ TimedSubmit
  \/ Immediate
  \/ Tick

TimedSpec == TimedInit /\ [][TimedNext]_vars

\* ----------------------------------------------------------- observations
Submitted == 1..Len(tasks)
Dequeued == {t \in Submitted : deqCount[t] >= 1}
Started == {t \in Submitted : execCount[t] >= 1}
Finished == {t \in Submitted : returned[t] # Pending}
UniqueIds == \A t1, t2 \in Submitted : tasks[t1].id = tasks[t2].id => t1 = t2
AllExited == \A w \in Workers : wpc[w] = (IF w <= workerCount THEN "exited" ELSE "idle")

\* ------------------------------------------------------------------ claims

\* C1: within one Run every submitted task is received from the queue at most
\* once, is held by at most one worker at a time, and has Execute invoked on
\* it at most once, under every interleaving of the workers.
C1_ExecutedAtMostOnce ==
  \A t \in TaskIdx :
    /\ deqCount[t] <= 1
    /\ execCount[t] <= 1
    /\ Cardinality({w \in Workers : wtask[w] = t}) <= 1

\* C1 witness: two workers are inside Execute at once, each on its own task.
C1_Witness ==
  /\ wpc[1] = "exec" /\ wpc[2] = "exec"
  /\ wtask[1] # wtask[2]
  /\ execCount[wtask[1]] = 1 /\ execCount[wtask[2]] = 1

\* C2: Run returns only after every worker it started has exited; once it has
\* returned no worker is inside Execute and the result set is never written
\* again; and a worker leaves Execute only because Execute returned, even
\* after the global deadline has fired.
C2_ReturnAfterJoin ==
  /\ [](runPc = "returned" => AllExited)
  /\ [][runPc = "returned" => results' = results]_vars
  /\ [][\A w \in Workers :
          (wpc[w] = "exec" /\ wpc'[w] # "exec")
            => (wpc'[w] = "lock" /\ returned'[wtask[w]] = werr'[w])]_vars

\* C2 witness: the global deadline has fired, Run has started all its workers
\* and is held in Wait by a multi-step task that has made its last poll of the
\* token and is still running; every other worker has exited.
C2_Witness ==
  /\ runPc = "spawn"
  /\ spawnI = workerCount
  /\ workerCount = MaxWorkers
  /\ ctxErr = "deadline"
  /\ wpc[1] = "exec"
  /\ tasks[wtask[1]].kind = "long"
  /\ wstep[1] = tasks[wtask[1]].count
  /\ \A w \in Workers \ {1} : wpc[w] = "exited"
  /\ ~ENABLED RunWait

C4_EntriesFromFinishedTasks ==
  /\ \A id \in DOMAIN results :
       \E t \in Submitted : tasks[t].id = id /\ t \in Dequeued /\ t \in Finished
  /\ \A t \in Submitted :
       (t \notin Started /\ \A u \in Submitted : tasks[u].id = tasks[t].id => u = t)
         => GetID(t) \notin DOMAIN results

\* C4 witness: Run returned after the deadline fired, with a task still in the
\* queue that no worker ever received, and no entry for it.
C4_Witness ==
  /\ runPc = "returned"
  /\ workerCount >= 1
  /\ ctxErr = "deadline"
  /\ \E t \in Submitted : deqCount[t] = 0 /\ GetID(t) \notin DOMAIN results

\* C5: the result set never has more entries than tasks were submitted, and
\* after Run it has as many only if no task was abandoned (every submitted
\* task was started).
C5_SizeBound ==
  /\ Cardinality(DOMAIN results) <= Len(tasks)
  /\ (runPc = "returned" /\ Cardinality(DOMAIN results) = Len(tasks))
       => Started = Submitted

\* C5 witness: Run returned with fewer entries than tasks because the deadline
\* made a worker drop a task.
C5_Witness ==
  /\ runPc = "returned"
  /\ UniqueIds
  /\ Len(tasks) = 2
  /\ Cardinality(DOMAIN results) = 1
  /\ \E t \in Dequeued : t \notin Started

C7_EmptyRunTerminates ==
  /\ [](Len(tasks) = 0 /\ runPc # "new"
         => \A w \in Workers :
              /\ wpc[w] \in {"idle", "recv", "exited"}
              /\ (wpc[w] = "recv" => ENABLED WorkerDrained(w)))
  /\ (Len(tasks) = 0 /\ runPc = "range")
       ~> (runPc = "returned" /\ AllExited /\ DOMAIN results = {})

\* C7 witness: Run has returned from an empty batch with the largest pool.
C7_Witness ==
  /\ runPc = "returned"
  /\ Len(tasks) = 0
  /\ workerCount = MaxWorkers
  /\ AllExited
  /\ DOMAIN results = {}

C9_ErrorsAreRecordedNotFatal ==
  /\ [][\A w \in Workers :
          (wpc[w] = "crit" /\ wpc'[w] # "crit")
            => /\ wpc'[w] = "recv"
               /\ GetID(wtask[w]) \in DOMAIN results'
               /\ results'[GetID(wtask[w])] = werr[w]
               /\ werr[w] = returned[wtask[w]]]_vars
  /\ [][\A w \in Workers :
          (wpc[w] = "exec" /\ wpc'[w] = "lock")
            => /\ \A v \in Workers \ {w} : wpc'[v] = wpc[v] /\ wtask'[v] = wtask[v]
               /\ runPc' = runPc]_vars
  /\ [](\A t \in TaskIdx : recorded[t] # Pending => recorded[t] = returned[t])

\* C9 witness: the only worker recorded an error for the first task, went on
\* to run and record the second, and Run has returned.
C9_Witness ==
  /\ runPc = "returned"
  /\ workerCount = 1
  /\ Len(tasks) = 2
  /\ recorded[1] \notin {Pending, Nil}
  /\ recorded[2] # Pending
  /\ UniqueIds
  /\ results[tasks[1].id] = recorded[1]

\* C10: the result set changes only in a step of the worker that holds the
\* mutex, which releases it in that step; at most one worker is in the
\* critical section; the mutex is held exactly by the worker between Lock and
\* Unlock, so never by a worker inside Execute; and a worker inside Execute
\* can always take a step, whoever holds the mutex.
C10_InsertUnderMutex ==
  /\ [](Cardinality({w \in Workers : wpc[w] = "crit"}) <= 1)
  /\ [](\A w \in Workers : (mu = w) <=> (wpc[w] = "crit"))
  /\ [](\A w \in Workers : wpc[w] = "exec" => (mu # w /\ ENABLED Execute(w)))
  /\ [][results' # results
         => (mu \in Workers /\ wpc[mu] = "crit" /\ wpc'[mu] # "crit" /\ mu' = 0)]_vars

\* C10 witness: one worker holds the mutex, the other waits for it with its
\* outcome in hand.
C10_Witness ==
  /\ mu = 1
  /\ wpc[1] = "crit"
  /\ wpc[2] = "lock"

\* C10 witness, second case: a worker is inside Execute while the other holds
\* the mutex.
C10_ExecWhileLocked ==
  /\ mu = 1
  /\ wpc[2] = "exec"

\* C11 as stated: a scheduler is never constructed with workerCount < 1 (the
\* constructor fails or clamps), so no Run returns having started no worker
\* with submitted tasks left unexecuted.
C11_NoRunWithZeroWorkers ==
  (runPc = "returned" /\ Len(tasks) >= 1) => (workerCount >= 1 /\ spawnI >= 1)

\* C12 as stated: once Run has started, a call of AddTask leaves the task list
\* as it was.
C12_LateAddTaskIgnored ==
  [][runPc # "new" => tasks' = tasks]_vars

\* C13 as stated: once Run has been called a second time, no task is executed
\* (again) and the result set of the first call is not altered.
C13_SecondRunGuarded ==
  [][reruns >= 1 => (execCount' = execCount /\ results' = results)]_vars

\* C14: Run starts exactly workerCount workers whatever the size of the batch:
\* never more while it starts them, exactly that many once it waits or has
\* returned; the workers started are the only ones that ever hold a task, so
\* at most workerCount tasks are inside Execute at any moment.
C14_ExactlyWorkerCountWorkers ==
  /\ spawnI <= workerCount
  /\ Cardinality({w \in Workers : wpc[w] # "idle"}) = spawnI
  /\ (runPc = "returned" \/ ENABLED RunWait) => spawnI = workerCount
  /\ Cardinality({w \in Workers : wpc[w] = "exec"}) <= workerCount
  /\ Cardinality({t \in Submitted : execCount[t] >= 1 /\ returned[t] = Pending})
       <= workerCount

\* C14 witness: a pool of one with a batch of two: the worker is inside
\* Execute on one task, the other task waits in the queue, and Run, which has
\* started its one worker, starts no other.
C14_Witness ==
  /\ workerCount = 1
  /\ Len(tasks) = 2
  /\ runPc = "spawn" /\ spawnI = 1
  /\ ~ENABLED RunSpawn
  /\ wpc[1] = "exec"
  /\ wpc[2] = "idle"
  /\ Len(taskChan) = 1

\* --------------------------------------------------- claims about time
Min(a, b) == IF a <= b THEN a ELSE b

\* The workers whose task has its taskCtx.
InExecute == {w \in WorkerSlots : wpc[w] = "exec" /\ texec[w] # "none"}

\* When the token of the task of worker w is due: at the earlier of the
\* task's own deadline and the global one.
TokenDue(w) == Min(taskDeadline[wtask[w]], timeout)

\* C15: for a task of either variant the token it polls is never done before
\* the earlier of its own deadline and the global deadline, and is done
\* before time passes that instant; a step of a multi-step task begins only
\* at or before that instant.
C15_TokenFiresAtEarlierDeadline ==
  /\ [](\A w \in InExecute :
          /\ TokenFired(w) => now >= TokenDue(w)
          /\ now > TokenDue(w) => TokenFired(w))
  /\ [][\A w \in InExecute :
          (texec[w] = "poll" /\ texec'[w] = "sleep") => now <= TokenDue(w)]_vars

\* C15 witness: at the global deadline two tasks are inside Execute with
\* their tokens done: a bounded one whose own deadline is still ahead, and a
\* multi-step one whose own timer fired earlier, while it slept.
C15_Witness ==
  /\ ctxErr = "deadline"
  /\ now = timeout
  /\ \E w1, w2 \in InExecute :
       /\ tasks[wtask[w1]].kind = "simple"
       /\ taskDeadline[wtask[w1]] > timeout
       /\ ~tFired[w1] /\ TokenFired(w1)
       /\ tasks[wtask[w2]].kind = "long"
       /\ taskDeadline[wtask[w2]] < timeout
       /\ tFired[w2]

\* C16 as stated: the outcome of a task stopped by a deadline tells which one
\* it was: a timeout when the task's own deadline came first, a cancellation
\* when the global deadline came first.
C16_OutcomeTellsCause ==
  \A t \in DOMAIN returned :
    (returned[t] \notin {Pending, Nil}) =>
      /\ taskDeadline[t] < timeout => returned[t][1] = "timeout"
      /\ timeout < taskDeadline[t] => returned[t][1] = "cancelled"

\* C17: when a SimpleTask returns while the global context is not done, it
\* returns the timeout error, at its deadline, if its deadline is shorter
\* than its simulated duration, and nil, at the end of that duration, if its
\* deadline is longer.
C17_SimpleTimeoutOrSuccess ==
  [][\A w \in WorkerSlots :
       (/\ wpc[w] = "exec" /\ wpc'[w] = "lock"
        /\ tasks[wtask[w]].kind = "simple"
        /\ ~CtxDone)
         => LET deadline == taskDeadline[wtask[w]]
                duration == wake[w]
            IN /\ deadline < duration => (werr'[w] = ErrTimeout /\ now = deadline)
               /\ deadline > duration => (werr'[w] = Nil /\ now = duration)]_vars

\* C17 witness: under a global budget that never expired, Run has returned a
\* timeout for a bounded task with the short deadline and nil for one with
\* the long deadline.
C17_Witness ==
  /\ runPc = "returned"
  /\ ctxErr = "canceled"
  /\ \E t1, t2 \in Submitted :
       /\ tasks[t1].kind = "simple" /\ tasks[t2].kind = "simple"
       /\ taskTimeout[t1] = 1 /\ recorded[t1] = ErrTimeout
       /\ taskTimeout[t2] = 5 /\ recorded[t2] = Nil
       /\ DOMAIN results = {tasks[t1].id, tasks[t2].id}
       /\ results[tasks[t1].id] = ErrTimeout
       /\ results[tasks[t2].id] = Nil

\* C18: the step a LongRunningTask reports in its cancellation error is less
\* than its Count, and is the number of steps it has completed: the value of
\* its loop counter, and the number of 100ms sleeps since its Execute began.
C18_CancelledStepBelowCount ==
  /\ [](\A t \in DOMAIN returned :
          (returned[t] # Pending /\ returned[t][1] = "cancelled")
            => (tasks[t].kind = "long" /\ returned[t][2] >= 0
                /\ returned[t][2] < tasks[t].count))
  /\ [][\A w \in WorkerSlots :
          (wpc[w] = "exec" /\ wpc'[w] = "lock" /\ werr'[w][1] = "cancelled")
            => /\ werr'[w][2] = wstep[w]
               /\ werr'[w][2] = now - (taskDeadline[wtask[w]] - taskTimeout[wtask[w]])]_vars

\* C18 witness: a task of two steps was cancelled after its first step.
C18_Witness ==
  \E t \in Submitted :
    /\ tasks[t].kind = "long"
    /\ tasks[t].count = 2
    /\ returned[t] = ErrCancelled(1)
    /\ recorded[t] = ErrCancelled(1)

\* The scheduler was built and filled as in the scenario.
IsScenario ==
  /\ tasks = ScenarioTasks
  /\ taskTimeout = ScenarioTimeouts
  /\ workerCount = ScenarioWorkers
  /\ timeout = ScenarioBudget

RECURSIVE NeededTicks(_)
NeededTicks(n) ==
  IF n = 0 THEN 0
  ELSE NeededTicks(n - 1)
         + (IF returned[n] # Nil THEN 0
            ELSE IF tasks[n].kind = "long" THEN tasks[n].count ELSE 3)

\* Two tasks of 200ms each with deadlines of 500ms, one worker, a budget of 1s.
IsSerialScenario ==
  /\ workerCount = 1
  /\ timeout = 10
  /\ tasks = <<NewLongRunningTask(1, 2), NewLongRunningTask(2, 2)>>
  /\ taskTimeout = <<5, 5>>

\* C20: with one worker, Execute is entered for a task only when every task
\* entered before has its outcome recorded, and when Run returns at least the
\* sum of the durations of the tasks that succeeded has passed; in the
\* scenario of two 200ms tasks both succeed and Run lasts at least 400ms.
C20_SingleWorkerSerial ==
  /\ workerCount = 1 =>
       /\ Cardinality({t \in Submitted : execCount[t] >= 1 /\ recorded[t] = Pending}) <= 1
       /\ (runPc = "returned" => now >= NeededTicks(Len(tasks)))
  /\ (IsSerialScenario /\ runPc = "returned") =>
       /\ results = <<Nil, Nil>>
       /\ now >= 4

\* C20 witness: the scenario's Run has returned both successes after 400ms.
C20_Witness ==
  /\ IsSerialScenario
  /\ runPc = "returned"
  /\ results = <<Nil, Nil>>
  /\ now = 4

\* ---------------------------------------------------- claims on the queue
\* The tasks a worker received and dropped at its select: received, never
\* started, and no longer held by any worker.
Discarded ==
  {t \in Dequeued : execCount[t] = 0 /\ \A w \in DOMAIN wtask : wtask[w] # t}

ExitedWorkers == {w \in DOMAIN wpc : wpc[w] = "exited"}

\* C22: a worker that finds the global deadline fired at its select, right
\* after receiving a task, drops that task (Execute is not started, s.results
\* is not written) and exits; an exited worker starts nothing more, so every
\* worker drops at most one task in a Run and at most workerCount tasks are
\* dropped; what is still in the queue when all workers have exited is never
\* executed.
C22_DeadlineDropsOneTaskPerWorker ==
  /\ [][\A w \in Workers :
          /\ (wpc[w] = "select" /\ CtxDone) =>
                /\ wpc'[w] \in {"select", "exited"}
                /\ wpc'[w] = "exited" =>
                      /\ results' = results
                      /\ execCount' = execCount
                      /\ recorded' = recorded
                      /\ wtask[w] \in Discarded'
          /\ wpc[w] = "exited" => wpc'[w] = "exited"]_vars
  /\ [](/\ Cardinality(Discarded) <= Cardinality(ExitedWorkers)
        /\ Cardinality(ExitedWorkers) <= workerCount)
  /\ [](AllExited => \A i \in 1..Len(taskChan) : execCount[taskChan[i]] = 0)
  /\ [][AllExited => execCount' = execCount]_vars

\* One worker, two tasks: the worker dropped the first at its select and
\* exited, Run returned, the second is still in the queue, never executed.
C22_Witness ==
  /\ workerCount = 1
  /\ Len(tasks) = 2
  /\ runPc = "returned"
  /\ Discarded = {1}
  /\ taskChan = <<2>>
  /\ execCount[2] = 0
  /\ results = <<>>

\* C23: Run sends the whole batch into the queue and closes it before any
\* worker is started, and no send of that loop blocks: the number of tasks to
\* send never exceeds the capacity the queue was made with, also when AddTask
\* runs on another goroutine while Run does.
C23_SeedBeforeWorkersNeverBlocks ==
  /\ runPc = "seed" => seedLen <= chanCap
  /\ (runPc = "seed" /\ seedI <= seedLen) => Len(taskChan) < chanCap
  /\ (\E w \in DOMAIN wpc : wpc[w] # "idle") => (chanClosed /\ seedI > seedLen)

\* The pool sizes of the fair runs of whole batches.
FairPools == {1, 2}

\* A scheduler with at least one worker, scheduled fairly.
PoolInit == Init /\ workerCount \in FairPools

PoolFairSpec == PoolInit /\ [][Next]_vars /\ Fairness

\* C24: every step of a task's Execute is a step of its worker, so under weak
\* fairness of Run and of each worker every Execute returns; then for every
\* workerCount >= 1 and every batch a started Run returns, after every worker
\* has exited (the queue was closed and drained, or the worker found the
\* global deadline fired).
C24_RunTerminates ==
  (runPc = "range" /\ workerCount >= 1) ~> (runPc = "returned" /\ AllExited)

\* Run has returned from a batch larger than its pool, one worker having
\* exited on the drained queue.
C24_Witness ==
  /\ runPc = "returned"
  /\ AllExited
  /\ workerCount >= 1
  /\ Len(tasks) > workerCount
  /\ taskChan = <<>>
  /\ Finished = Submitted

\* C25: a LongRunningTask polls its token only in the select before each
\* step.  When poll number i (from 0) finds the token done, Execute returns
\* the cancellation error of step i, i steps and i sleeps having been done
\* (with the token done at entry: no step, step 0); when it does not, step i
\* is performed whole, and a token that fires during the sleep does not end
\* it.  After Count polls that found nothing Execute returns nil, also when
\* the token has fired since the last poll.
C25_PollBeforeEachStepOnly ==
  [][\A w \in WorkerSlots :
       /\ (/\ wpc[w] = "exec"
           /\ tasks[wtask[w]].kind = "long"
           /\ texec[w] = "poll"
           /\ (texec'[w] # "poll" \/ wpc'[w] # "exec"))
          => IF wstep[w] < tasks[wtask[w]].count
               THEN IF TokenFired(w)
                      THEN /\ wpc'[w] = "lock"
                           /\ werr'[w] = <<"cancelled", wstep[w]>>
                           /\ wstep[w] = now - (taskDeadline[wtask[w]] - taskTimeout[wtask[w]])
                      ELSE /\ wpc'[w] = "exec"
                           /\ texec'[w] = "sleep"
                           /\ wstep'[w] = wstep[w]
               ELSE /\ wstep[w] = tasks[wtask[w]].count
                    /\ wpc'[w] = "lock"
                    /\ werr'[w] = Nil
       /\ (wpc[w] = "exec" /\ texec[w] = "sleep")
          => /\ wpc'[w] = "exec"
             /\ texec'[w] \in {"sleep", "poll"}
             /\ (texec'[w] = "poll" => wstep'[w] = wstep[w] + 1)]_vars

\* A task of two steps has just returned nil although its own deadline
\* passed during its last step.
C25_Witness ==
  \E w \in WorkerSlots :
    /\ wpc[w] = "lock"
    /\ tasks[wtask[w]].kind = "long"
    /\ tasks[wtask[w]].count = 2
    /\ werr[w] = Nil
    /\ now > taskDeadline[wtask[w]]
    /\ ~CtxDone

\* C26: the tasks leave the queue in the order AddTask appended them: the
\* k-th receive of a Run yields the k-th task of s.tasks, so the received
\* tasks are always the first ones of the batch, no task is started before
\* all earlier ones were received, and with one worker a task is started
\* only after Execute has returned, and its outcome was stored, for every
\* earlier one.
C26_DequeuedInSubmissionOrder ==
  /\ [][\A t \in Submitted :
          deqCount'[t] > deqCount[t] => t = Cardinality(Dequeued) + 1]_vars
  /\ [](\A t \in Dequeued : \A u \in 1..(t - 1) : u \in Dequeued)
  /\ [](\A t \in Started : \A u \in 1..(t - 1) : u \in Dequeued)
  /\ [](workerCount = 1 =>
          \A t \in Started : \A u \in 1..(t - 1) :
            returned[u] # Pending /\ recorded[u] # Pending)

\* The only worker is inside Execute of the second task, the first one having
\* been executed and stored.
C26_Witness ==
  /\ workerCount = 1
  /\ Len(tasks) >= 2
  /\ wpc[1] = "exec"
  /\ wtask[1] = 2
  /\ deqCount[1] = 1 /\ deqCount[2] = 1
  /\ recorded[1] # Pending

\* ============================================================== the Logger
\* unnamed/part_001: a Logger with its writeLoop goroutine and MaxCallers
\* goroutines that call Log and Close on it in any order.  A statement of
\* the code is one step; l.running is a plain field, read and written with
\* no lock.  A panic ends the program: no step follows it.
Callers == 1..MaxCallers

\* NewLogger: the file is opened when a name is given; writeLoop is started.
NewLogger ==
  /\ running = TRUE
  /\ entries = <<>>
  /\ entriesClosed = FALSE
  /\ loggerWg = 1
  /\ file \in {"nil", "open"}
  /\ loopPc = "recv"
  /\ loopEntry = 0
  /\ callPc = [c \in Callers |-> "idle"]
  /\ callEntry = [c \in Callers |-> 0]
  /\ panicked = "no"
  /\ logCalls = 0
  /\ accepted = <<>>
  /\ written = <<>>
  /\ dropped = {}
  /\ closeReturned = FALSE

LoggerInit == NewLogger /\ NoScheduler /\ NoTable /\ NoBank

\* Variant: Close does not wait for writeLoop.
WriteLoopJoinedAlways(n) == TRUE

\* l.wg.Wait() returns
WriteLoopJoined(n) == n = 0

\* writeLoop: for entry := range l.entries, an entry is received
LoopRecv ==
  /\ panicked = "no"
  /\ loopPc = "recv"
  /\ entries # <<>>
  /\ loopEntry' = Head(entries)
  /\ entries' = Tail(entries)
  /\ loopPc' = "write"
  /\ UNCHANGED <<running, entriesClosed, loggerWg, file, callPc, callEntry, panicked,
                 logCalls, accepted, written, dropped, closeReturned>>
  /\ UNCHANGED <<schedVars, scopeVars, bankVars>>

\* writeLoop: the entry is formatted and written to the file, when there is
\* one, and to the console, when asked for
LoopWrite ==
  /\ panicked = "no"
  /\ loopPc = "write"
  /\ written' = Append(written, loopEntry)
  /\ loopEntry' = 0
  /\ loopPc' = "recv"
  /\ UNCHANGED <<running, entries, entriesClosed, loggerWg, file, callPc, callEntry,
                 panicked, logCalls, accepted, dropped, closeReturned>>
  /\ UNCHANGED <<schedVars, scopeVars, bankVars>>

\* writeLoop: the channel is closed and drained; the deferred l.wg.Done()
LoopExit ==
  /\ panicked = "no"
  /\ loopPc = "recv"
  /\ entries = <<>>
  /\ entriesClosed
  /\ loopPc' = "exited"
  /\ loggerWg' = loggerWg - 1
  /\ UNCHANGED <<running, entries, entriesClosed, file, loopEntry, callPc, callEntry,
                 panicked, logCalls, accepted, written, dropped, closeReturned>>
  /\ UNCHANGED <<schedVars, scopeVars, bankVars>>

writeLoop == LoopRecv \/ LoopWrite \/ LoopExit

\* Log: if !l.running { return }; else the entry is built
LogBegin(c) ==
  /\ panicked = "no"
  /\ callPc[c] = "idle"
  /\ logCalls < MaxLogCalls
  /\ IF running
       THEN /\ logCalls' = logCalls + 1
            /\ callEntry' = [callEntry EXCEPT ![c] = logCalls + 1]
            /\ callPc' = [callPc EXCEPT ![c] = "send"]
       ELSE UNCHANGED <<logCalls, callEntry, callPc>>
  /\ UNCHANGED <<running, entries, entriesClosed, loggerWg, file, loopPc, loopEntry,
                 panicked, accepted, written, dropped, closeReturned>>
  /\ UNCHANGED <<schedVars, scopeVars, bankVars>>

\* Log: select { case l.entries <- entry: default: }.  A send on a closed
\* channel panics, in a select with a default case as well.
LogSend(c) ==
  /\ panicked = "no"
  /\ callPc[c] = "send"
  /\ IF entriesClosed
       THEN /\ panicked' = "send"
            /\ UNCHANGED <<entries, accepted, dropped, callPc, callEntry>>
       ELSE /\ IF Len(entries) < EntriesCap
                 THEN /\ entries' = Append(entries, callEntry[c])
                      /\ accepted' = Append(accepted, callEntry[c])
                      /\ dropped' = dropped
                 ELSE /\ dropped' = dropped \cup {callEntry[c]}
                      /\ UNCHANGED <<entries, accepted>>
            /\ callPc' = [callPc EXCEPT ![c] = "idle"]
            /\ callEntry' = [callEntry EXCEPT ![c] = 0]
            /\ panicked' = panicked
  /\ UNCHANGED <<running, entriesClosed, loggerWg, file, loopPc, loopEntry,
                 logCalls, written, closeReturned>>
  /\ UNCHANGED <<schedVars, scopeVars, bankVars>>

Log(c) == LogBegin(c) \/ LogSend(c)

\* Close: if !l.running { return }
CloseBegin(c) ==
  /\ panicked = "no"
  /\ callPc[c] = "idle"
  /\ running
  /\ callPc' = [callPc EXCEPT ![c] = "set"]
  /\ UNCHANGED <<running, entries, entriesClosed, loggerWg, file, loopPc, loopEntry,
                 callEntry, panicked, logCalls, accepted, written, dropped, closeReturned>>
  /\ UNCHANGED <<schedVars, scopeVars, bankVars>>

\* Close: l.running = false
CloseSet(c) ==
  /\ panicked = "no"
  /\ callPc[c] = "set"
  /\ running' = FALSE
  /\ callPc' = [callPc EXCEPT ![c] = "close"]
  /\ UNCHANGED <<entries, entriesClosed, loggerWg, file, loopPc, loopEntry,
                 callEntry, panicked, logCalls, accepted, written, dropped, closeReturned>>
  /\ UNCHANGED <<schedVars, scopeVars, bankVars>>

\* Close: close(l.entries).  Closing a closed channel panics.
CloseChannel(c) ==
  /\ panicked = "no"
  /\ callPc[c] = "close"
  /\ IF entriesClosed
       THEN /\ panicked' = "close"
            /\ UNCHANGED <<entriesClosed, callPc>>
       ELSE /\ entriesClosed' = TRUE
            /\ callPc' = [callPc EXCEPT ![c] = "wait"]
            /\ panicked' = panicked
  /\ UNCHANGED <<running, entries, loggerWg, file, loopPc, loopEntry,
                 callEntry, logCalls, accepted, written, dropped, closeReturned>>
  /\ UNCHANGED <<schedVars, scopeVars, bankVars>>

\* Close: l.wg.Wait()
CloseWait(c) ==
  /\ panicked = "no"
  /\ callPc[c] = "wait"
  /\ WriteLoopJoined(loggerWg)
  /\ callPc' = [callPc EXCEPT ![c] = "file"]
  /\ UNCHANGED <<running, entries, entriesClosed, loggerWg, file, loopPc, loopEntry,
                 callEntry, panicked, logCalls, accepted, written, dropped, closeReturned>>
  /\ UNCHANGED <<schedVars, scopeVars, bankVars>>

\* Close: if l.file != nil { l.file.Close() }, and Close returns
CloseFile(c) ==
  /\ panicked = "no"
  /\ callPc[c] = "file"
  /\ file' = IF file = "nil" THEN "nil" ELSE "closed"
  /\ callPc' = [callPc EXCEPT ![c] = "idle"]
  /\ closeReturned' = TRUE
  /\ UNCHANGED <<running, entries, entriesClosed, loggerWg, loopPc, loopEntry,
                 callEntry, panicked, logCalls, accepted, written, dropped>>
  /\ UNCHANGED <<schedVars, scopeVars, bankVars>>

Close(c) ==
  \/ CloseBegin(c)
  \/ CloseSet(c)
  \/ CloseChannel(c)
  \/ CloseWait(c)
  \/ CloseFile(c)

LoggerNext ==
  \/ writeLoop
  \/ \E c \in Callers : Log(c)
  \/ \E c \in Callers : Close(c)

LoggerSpec == LoggerInit /\ [][LoggerNext]_vars

\* ----------------------------------------------------- claims on the Logger
\* C27: whatever the interleaving of Log and Close calls made by different
\* goroutines, no send on l.entries happens after its close and l.entries is
\* closed at most once: no goroutine ever panics.
C27_NoPanic == panicked = "no"

\* s is a prefix of t
IsPrefix(s, t) ==
  /\ Len(s) <= Len(t)
  /\ \A i \in 1..Len(s) : s[i] = t[i]

C29_LogDropsOrEnqueuesOnce ==
  /\ [](Len(entries) <= EntriesCap)
  /\ [](\A e \in dropped : \A i \in 1..Len(written) : written[i] # e)
  /\ [](\A i, j \in 1..Len(accepted) : accepted[i] = accepted[j] => i = j)
  /\ [](\A c \in Callers :
          (callPc[c] = "send" /\ panicked = "no") => ENABLED LogSend(c))
  /\ [][\A c \in Callers :
          (callPc[c] = "send" /\ (callPc'[c] # "send" \/ panicked' # panicked))
            => IF Len(entries) >= EntriesCap
                 THEN /\ dropped' = dropped \cup {callEntry[c]}
                      /\ entries' = entries
                      /\ accepted' = accepted
                 ELSE /\ entries' = Append(entries, callEntry[c])
                      /\ accepted' = Append(accepted, callEntry[c])
                      /\ dropped' = dropped]_vars

\* ================================================= scopes and pagination
\* lesson-02/basics/Scopes_test.go: the users table and the query helpers
\* built from the scopes YoungUsers and Paginate.  A row is [age, status,
\* email]; its place in the table is its ID and its order of creation.  The
\* email stands for what a LIKE pattern matches in it.  A helper answers with
\* the window it hands to Offset and Limit, the rows found (as places in the
\* table) and the total.  The table is filled first; then one call of a
\* helper is observed (the helpers only read the table).  page and size stay
\* far below the width of int, so (page - 1) * size does not wrap.
MinAge == 18
MaxAge == 30

AgeChoices == {17, 18, 30, 31}
RowChoices ==
  {[age |-> a, status |-> "active", email |-> "example"] : a \in AgeChoices}
    \cup {[age |-> 25, status |-> "inactive", email |-> "other"]}
PageChoices == {-1, 0, 1, 2, 3}
SizeChoices == {-1, 0, 1, 2, 100, 101}
StatusChoices == {"", "active"}
PatternChoices == {"", "example"}

NoQuery == [fn |-> "none", page |-> 0, size |-> 0, arg |-> ""]
NoAnswer == [offset |-> 0, limit |-> 0, rows |-> <<>>, total |-> 0]

ScopesInit ==
  /\ users = <<>>
  /\ query = NoQuery
  /\ answer = NoAnswer
  /\ NoScheduler /\ NoLogger /\ NoBank

\* db.Create(&seedUsers[i])
Create(u) ==
  /\ query = NoQuery
  /\ Len(users) < MaxUsers
  /\ users' = Append(users, u)
  /\ UNCHANGED <<query, answer>>
  /\ UNCHANGED <<schedVars, logVars, bankVars>>

\* Variant: both ends of the age range left out.
YoungUsersExclusive(u) == u.age > MinAge /\ u.age < MaxAge

\* YoungUsers: Where("age >= ? AND age <= ?", MinAge, MaxAge)
YoungUsers(u) == u.age >= MinAge /\ u.age <= MaxAge

\* Where("status = ?", status), added when status is not empty
StatusIs(u, status) == status = "" \/ u.status = status

\* Where("email LIKE ?", "%"+emailPattern+"%"), added when the pattern is not empty
EmailLike(u, pattern) == pattern = "" \/ u.email = pattern

\* The places of the table in the order of Order("created_at DESC").
CreatedAtDesc == [i \in 1..Len(users) |-> Len(users) + 1 - i]

\* OFFSET offset LIMIT limit on a sequence of rows; gorm leaves the OFFSET
\* clause out when offset is not positive.
Window(rows, offset, limit) ==
  LET skip == IF offset > 0 THEN offset ELSE 0
      last == IF skip + limit < Len(rows) THEN skip + limit ELSE Len(rows)
  IN  SubSeq(rows, skip + 1, last)

\* Paginate: page and size are normalised, then the offset is computed.
Paginate(page, size) ==
  LET page1 == IF page < 1 THEN 1 ELSE page
      size1 == IF size <= 0 THEN 20 ELSE size
      size2 == IF size1 > 100 THEN 100 ELSE size1
  IN  [offset |-> (page1 - 1) * size2, limit |-> size2]

\* GetYoungUsersByPage, "添加分页": the offset is computed first, from page
\* and size as given, and then page and size are normalised.
PageWindow(page, size) ==
  LET offset == (page - 1) * size
      size1 == IF size <= 0 THEN 20 ELSE size
      size2 == IF size1 > 100 THEN 100 ELSE size1
  IN  [offset |-> offset, limit |-> size2]

\* What a helper returns for the rows found by its conditions and its
\* window: the total is counted before the window is applied.
Answer(found, w) ==
  [offset |-> w.offset,
   limit |-> w.limit,
   rows |-> Window(found, w.offset, w.limit),
   total |-> Len(found)]

GetYoungUsersWithPagination(page, size) ==
  /\ query = NoQuery
  /\ query' = [fn |-> "GetYoungUsersWithPagination", page |-> page, size |-> size,
                arg |-> ""]
  /\ answer' = Answer(SelectSeq(CreatedAtDesc, LAMBDA i : YoungUsers(users[i])),
                      Paginate(page, size))
  /\ UNCHANGED users
  /\ UNCHANGED <<schedVars, logVars, bankVars>>

\* orderBy is left empty: Order("created_at DESC")
GetYoungUsersByPage(page, size, status) ==
  /\ query = NoQuery
  /\ query' = [fn |-> "GetYoungUsersByPage", page |-> page, size |-> size,
                arg |-> status]
  /\ answer' = Answer(SelectSeq(CreatedAtDesc,
                                LAMBDA i : YoungUsers(users[i]) /\ StatusIs(users[i], status)),
                      PageWindow(page, size))
  /\ UNCHANGED users
  /\ UNCHANGED <<schedVars, logVars, bankVars>>

FindYoungUsersByEmail(emailPattern, page, size) ==
  /\ query = NoQuery
  /\ query' = [fn |-> "FindYoungUsersByEmail", page |-> page, size |-> size,
                arg |-> emailPattern]
  /\ answer' = Answer(SelectSeq(CreatedAtDesc,
                                LAMBDA i : YoungUsers(users[i]) /\ EmailLike(users[i], emailPattern)),
                      Paginate(page, size))
  /\ UNCHANGED users
  /\ UNCHANGED <<schedVars, logVars, bankVars>>

ScopesNext ==
  \/ \E u \in RowChoices : Create(u)
  \/ \E page \in PageChoices, size \in SizeChoices :
        GetYoungUsersWithPagination(page, size)
  \/ \E page \in PageChoices, size \in SizeChoices, status \in StatusChoices :
        GetYoungUsersByPage(page, size, status)
  \/ \E page \in PageChoices, size \in SizeChoices, pattern \in PatternChoices :
        FindYoungUsersByEmail(pattern, page, size)

ScopesSpec == ScopesInit /\ [][ScopesNext]_vars

\* ------------------------------------------- claims on scopes and pagination
\* The places of the rows with an age from 18 to 30, both included.
Aged18To30 == {i \in 1..Len(users) : users[i].age >= 18 /\ users[i].age <= 30}

\* The size a request for size records is served with.
ServedSize(size) == IF size <= 0 THEN 20 ELSE IF size > 100 THEN 100 ELSE size

\* The rows of an answer are rows aged 18 to 30, none twice, and its total
\* counts all such rows of the table.
YoungAnswer ==
  /\ answer.total = Cardinality(Aged18To30)
  /\ \A k \in 1..Len(answer.rows) : answer.rows[k] \in Aged18To30
  /\ \A k, l \in 1..Len(answer.rows) : answer.rows[k] = answer.rows[l] => k = l

C30_SameWindowAsPaginate ==
  query.fn \in {"GetYoungUsersWithPagination", "FindYoungUsersByEmail",
                "GetYoungUsersByPage"} =>
    LET page1 == IF query.page < 1 THEN 1 ELSE query.page
    IN  /\ answer.limit = ServedSize(query.size)
        /\ answer.offset = (page1 - 1) * ServedSize(query.size)
        /\ answer.offset >= 0

\* ================================================================ the Bank
\* unnamed/part_000: a Bank used by one goroutine, one method call per step.
\* Balance and the amounts are float64.  The model keeps the shape of that
\* format at a small width: a finite value is a whole number with two
\* significant binary digits (0, 1, 2, 3, 4, 6, 8, 12), a result between two
\* of them is rounded to the nearest, a tie to the one with the even
\* significand, a result beyond the largest becomes +Inf, and NaN compares
\* false with everything.
PosInf == 1000
NegInf == -1000
NaN == 9999

\* The nearest multiple of step to x >= 0, a tie going to the even multiple.
RoundTo(x, step) ==
  LET q == x \div step
      r == x % step
  IN  IF 2 * r < step THEN q * step
      ELSE IF 2 * r > step THEN (q + 1) * step
      ELSE IF q % 2 = 0 THEN q * step
      ELSE (q + 1) * step

\* The float nearest to the whole number x >= 0.
RoundPos(x) ==
  LET y == IF x < 4 THEN x
           ELSE IF x < 8 THEN RoundTo(x, 2)
           ELSE RoundTo(x, 4)
  IN  IF y > 12 THEN PosInf ELSE y

Round(x) == IF x >= 0 THEN RoundPos(x) ELSE 0 - RoundPos(0 - x)

IsFinite(x) == x \notin {PosInf, NegInf, NaN}

\* a < b and a <= b on float64: false when either side is NaN
FLess(a, b) == a # NaN /\ b # NaN /\ a < b
FLessEq(a, b) == a # NaN /\ b # NaN /\ a <= b

\* a + b on float64
FAdd(a, b) ==
  IF a = NaN \/ b = NaN THEN NaN
  ELSE IF {a, b} = {PosInf, NegInf} THEN NaN
  ELSE IF PosInf \in {a, b} THEN PosInf
  ELSE IF NegInf \in {a, b} THEN NegInf
  ELSE Round(a + b)

FNeg(a) ==
  IF a = NaN THEN NaN
  ELSE IF a = PosInf THEN NegInf
  ELSE IF a = NegInf THEN PosInf
  ELSE 0 - a

\* a - b on float64
FSub(a, b) == FAdd(a, FNeg(b))

AccountNumbers == 1..MaxAccounts
AmountChoices == {-1, 0, 1, 3, 8, PosInf, NaN}

ErrNil == "nil"
ErrorAccountNotFound == "ErrorAccountNotFound"
ErrorInsufficientBalance == "ErrorInsufficientBalance"
ErrorInvalidAmount == "ErrorInvalidAmount"
ErrExists == "exists"            \* "账户 %s 已存在"
ErrSource == "source"            \* "源账户 %s 不存在或已冻结"
ErrTarget == "target"            \* "目标账户 %s 不存在或已冻结"

BankCall(op, from, to, amount) ==
  [op |-> op, from |-> from, to |-> to, amount |-> amount]

NewBank ==
  /\ accounts = <<>>
  /\ bankCall = BankCall("NewBank", 0, 0, 0)
  /\ bankErr = ErrNil

BankInit == NewBank /\ NoScheduler /\ NoLogger /\ NoTable

\* !exists || !account.IsActive
Unusable(n) == n \notin DOMAIN accounts \/ ~accounts[n].IsActive

\* A method leaves with err and the accounts as acc.
BankReturn(call, err, acc) ==
  /\ bankCall' = call
  /\ bankErr' = err
  /\ accounts' = acc
  /\ UNCHANGED <<schedVars, logVars, scopeVars>>

OpenAccount(n, initialAccount) ==
  LET call == BankCall("OpenAccount", n, n, initialAccount)
  IN  IF FLess(initialAccount, 0)
        THEN BankReturn(call, ErrorInvalidAmount, accounts)
      ELSE IF n \in DOMAIN accounts
        THEN BankReturn(call, ErrExists, accounts)
      ELSE BankReturn(call, ErrNil,
                      MapSet(accounts, n, [Balance |-> initialAccount, IsActive |-> TRUE]))

Deposit(n, amount) ==
  LET call == BankCall("Deposit", n, n, amount)
  IN  IF FLessEq(amount, 0)
        THEN BankReturn(call, ErrorInvalidAmount, accounts)
      ELSE IF Unusable(n)
        THEN BankReturn(call, ErrorAccountNotFound, accounts)
      ELSE BankReturn(call, ErrNil,
                      [accounts EXCEPT ![n].Balance = FAdd(@, amount)])

Withdraw(n, amount) ==
  LET call == BankCall("Withdraw", n, n, amount)
  IN  IF FLessEq(amount, 0)
        THEN BankReturn(call, ErrorInvalidAmount, accounts)
      ELSE IF Unusable(n)
        THEN BankReturn(call, ErrorAccountNotFound, accounts)
      ELSE IF FLess(accounts[n].Balance, amount)
        THEN BankReturn(call, ErrorInsufficientBalance, accounts)
      ELSE BankReturn(call, ErrNil,
                      [accounts EXCEPT ![n].Balance = FSub(@, amount)])

\* fromAcc and toAcc are pointers into the map: with from = to the second
\* assignment works on the balance the first one left.
Transfer(from, to, amount) ==
  LET call == BankCall("Transfer", from, to, amount)
  IN  IF FLessEq(amount, 0)
        THEN BankReturn(call, ErrorInvalidAmount, accounts)
      ELSE IF Unusable(from)
        THEN BankReturn(call, ErrSource, accounts)
      ELSE IF Unusable(to)
        THEN BankReturn(call, ErrTarget, accounts)
      ELSE IF FLess(accounts[from].Balance, amount)
        THEN BankReturn(call, ErrorInsufficientBalance, accounts)
      ELSE LET debited == [accounts EXCEPT ![from].Balance = FSub(@, amount)]
           IN  BankReturn(call, ErrNil,
                          [debited EXCEPT ![to].Balance = FAdd(@, amount)])

FreezeAccount(n) ==
  LET call == BankCall("FreezeAccount", n, n, 0)
  IN  IF n \notin DOMAIN accounts
        THEN BankReturn(call, ErrorAccountNotFound, accounts)
      ELSE BankReturn(call, ErrNil, [accounts EXCEPT ![n].IsActive = FALSE])

UnfreezeAccount(n) ==
  LET call == BankCall("UnfreezeAccount", n, n, 0)
  IN  IF n \notin DOMAIN accounts
        THEN BankReturn(call, ErrorAccountNotFound, accounts)
      ELSE BankReturn(call, ErrNil, [accounts EXCEPT ![n].IsActive = TRUE])

BankNext ==
  \/ \E n \in AccountNumbers, a \in AmountChoices : OpenAccount(n, a)
  \/ \E n \in AccountNumbers, a \in AmountChoices : Deposit(n, a)
  \/ \E n \in AccountNumbers, a \in AmountChoices : Withdraw(n, a)
  \/ \E from, to \in AccountNumbers, a \in AmountChoices : Transfer(from, to, a)
  \/ \E n \in AccountNumbers : FreezeAccount(n)
  \/ \E n \in AccountNumbers : UnfreezeAccount(n)

BankSpec == BankInit /\ [][BankNext]_vars

\* ------------------------------------------------------- claims on the Bank
\* a - b and a + b without rounding (on +Inf, -Inf and NaN as float64 has them)
ExactSub(a, b) == IF IsFinite(a) /\ IsFinite(b) THEN a - b ELSE FSub(a, b)
ExactAdd(a, b) == IF IsFinite(a) /\ IsFinite(b) THEN a + b ELSE FAdd(a, b)

RECURSIVE SumOver(_, _)
SumOver(acc, S) ==
  IF S = {} THEN 0
  ELSE LET n == CHOOSE x \in S : TRUE
       IN  ExactAdd(acc[n].Balance, SumOver(acc, S \ {n}))

\* The sum of all balances, without rounding.
TotalBalance(acc) == SumOver(acc, DOMAIN acc)

\* C31: a Transfer that returns an error leaves every balance and status as
\* it was, and it returns one when the amount is not positive, when source
\* or target is missing or frozen, and when the source holds less than the
\* amount; a Transfer that returns nil has taken exactly amount from the
\* source and added exactly amount to the target, the sum of all balances is
\* the same, and with source = target the balance is the same.
C31_TransferAllOrNothing ==
  [][bankCall'.op = "Transfer" =>
       LET from == bankCall'.from
           to == bankCall'.to
           amount == bankCall'.amount
       IN  /\ (\/ (amount # NaN /\ amount <= 0)
               \/ Unusable(from)
               \/ Unusable(to)
               \/ (amount # NaN /\ accounts[from].Balance # NaN
                     /\ accounts[from].Balance < amount))
                => bankErr' # ErrNil
           /\ bankErr' # ErrNil => accounts' = accounts
           /\ bankErr' = ErrNil =>
                /\ TotalBalance(accounts') = TotalBalance(accounts)
                /\ IF from = to
                     THEN accounts' = accounts
                     ELSE accounts' =
                            [accounts EXCEPT ![from].Balance = ExactSub(@, amount),
                                             ![to].Balance = ExactAdd(@, amount)]]_vars

\* C32: after any sequence of calls every balance is >= 0; the balance of a
\* frozen account is changed by no Deposit, Withdraw or Transfer, each of
\* which returns an error when it names that account, and the account stays
\* frozen until UnfreezeAccount is called on it.
C32_NonNegativeAndFrozenUntouched ==
  /\ [](\A n \in DOMAIN accounts : FLessEq(0, accounts[n].Balance))
  /\ [][\A n \in DOMAIN accounts :
          ~accounts[n].IsActive =>
            /\ bankCall'.op \in {"Deposit", "Withdraw", "Transfer"}
                 => /\ accounts'[n].Balance = accounts[n].Balance
                    /\ n \in {bankCall'.from, bankCall'.to} => bankErr' # ErrNil
            /\ accounts'[n].IsActive
                 => (bankCall'.op = "UnfreezeAccount" /\ bankCall'.from = n)]_vars


====
